---------------------------- MODULE Spec2Model ----------------------------
(***************************************************************************)
(* State machine of the WeatherOutfitRecommender React component           *)
(* (Frontend/src/components/WeatherOutfitRecommender.jsx).                 *)
(*                                                                         *)
(* The component state is the eight useState cells.  Every event handler   *)
(* (text change, mode toggle, map click, button click, Enter key) is one   *)
(* action.  handleLocationSubmit is an async function: it runs up to the   *)
(* `await fetch(...)`, is resumed when the fetch settles, and (for an ok   *)
(* response) is resumed once more when `response.json()` settles.  Each    *)
(* resumption is one action.  `requests` is the list of invocations of     *)
(* handleLocationSubmit that reached fetch, with the body they sent and    *)
(* the point at which each one is suspended.                               *)
(*                                                                         *)
(* Strings that the code takes apart (the location text) are sequences of  *)
(* one-character strings; messages the code builds by interpolation are    *)
(* sequences of their parts.                                               *)
(***************************************************************************)
EXTENDS Integers, Sequences, FiniteSets, TLC

VARIABLES location, coordinates, selectedCoords, recommendations,
          weatherData, loading, error, inputMethod, requests

vars == <<location, coordinates, selectedCoords, recommendations,
          weatherData, loading, error, inputMethod, requests>>

---------------------------------------------------------------------------
(* Bounds of the model *)

MaxRequests == 2

---------------------------------------------------------------------------
(* Values *)

Null == [null |-> TRUE]

Whitespace == {" "}
Chars == {" ", "c"}
Texts == {<<>>, <<" ">>, <<"c">>, <<" ", "c", " ">>}

DefaultCenter == [lat |-> "6.8213291", lng |-> "80.0415729"]
MapPoints == {[lat |-> "6.9", lng |-> "80.0"], [lat |-> "7.3", lng |-> "80.6"]}

Threshold == "0.5"

InputMethods == {"location", "map"}

Statuses == {200, 404, 500}

NoData == [recommendations |-> "unparsed", weather_data |-> "unparsed"]
JsonNull == [recommendations |-> "TypeError", weather_data |-> "TypeError"]
Payloads == {[recommendations |-> "r1", weather_data |-> "w1"],
             [recommendations |-> "undefined", weather_data |-> "w2"],
             JsonNull}

ValidationMessage == <<"Please enter a location or select a point on the map">>

---------------------------------------------------------------------------
(* Pure functions *)

RECURSIVE TrimStart(_)
TrimStart(s) ==
  IF s # <<>> /\ Head(s) \in Whitespace THEN TrimStart(Tail(s)) ELSE s

RECURSIVE TrimEnd(_)
TrimEnd(s) ==
  IF s # <<>> /\ s[Len(s)] \in Whitespace
  THEN TrimEnd(SubSeq(s, 1, Len(s) - 1))
  ELSE s

Trim(s) == TrimEnd(TrimStart(s))

ResponseOk(status) == status >= 200 /\ status <= 299

HttpErrorMessage_NoStatus(status) == <<"HTTP error!">>

HttpErrorMessage(status) == <<"HTTP error! status: ", ToString(status)>>

FailureMessage(message) == <<"Failed to get recommendations: ">> \o message

ValidationFails_NoTrim == location = <<>> /\ selectedCoords = Null

ValidationFails == Trim(location) = <<>> /\ selectedCoords = Null

RequestBody_IgnoresMode ==
  IF selectedCoords # Null
  THEN [lat |-> selectedCoords.lat, lon |-> selectedCoords.lng,
        threshold |-> Threshold]
  ELSE [location |-> Trim(location), threshold |-> Threshold]

RequestBody ==
  IF selectedCoords # Null /\ inputMethod = "map"
  THEN [lat |-> selectedCoords.lat, lon |-> selectedCoords.lng,
        threshold |-> Threshold]
  ELSE [location |-> Trim(location), threshold |-> Threshold]

ButtonDisabled == loading \/ (Trim(location) = <<>> /\ selectedCoords = Null)

---------------------------------------------------------------------------
(* Initial state: the useState initial values *)

Init ==
  /\ location = <<>>
  /\ coordinates = DefaultCenter
  /\ selectedCoords = Null
  /\ recommendations = "null"
  /\ weatherData = "null"
  /\ loading = FALSE
  /\ error = <<>>
  /\ inputMethod = "location"
  /\ requests = <<>>

---------------------------------------------------------------------------
(* Input events *)

LocationChange(text) ==
  /\ inputMethod = "location"
  /\ location' = text
  /\ UNCHANGED <<coordinates, selectedCoords, recommendations, weatherData,
                 loading, error, inputMethod, requests>>

SetInputMethod(method) ==
  /\ inputMethod' = method
  /\ UNCHANGED <<location, coordinates, selectedCoords, recommendations,
                 weatherData, loading, error, requests>>

MapClick(latlng) ==
  /\ selectedCoords' = [lat |-> latlng.lat, lng |-> latlng.lng]
  /\ coordinates' = [lat |-> latlng.lat, lng |-> latlng.lng]
  /\ UNCHANGED <<location, recommendations, weatherData, loading, error,
                 inputMethod, requests>>

---------------------------------------------------------------------------
(* handleLocationSubmit, up to the first await *)

HandleLocationSubmit ==
  IF ValidationFails
  THEN /\ error' = ValidationMessage
       /\ UNCHANGED <<location, coordinates, selectedCoords, recommendations,
                      weatherData, loading, inputMethod, requests>>
  ELSE /\ Len(requests) < MaxRequests
       /\ loading' = TRUE
       /\ error' = <<>>
       /\ requests' = Append(requests,
            [body |-> RequestBody, pc |-> "fetch", status |-> 0,
             data |-> NoData])
       /\ UNCHANGED <<location, coordinates, selectedCoords, recommendations,
                      weatherData, inputMethod>>

ButtonClick ==
  /\ ~ButtonDisabled
  /\ HandleLocationSubmit

EnterKey_WhileIdle ==
  /\ ~loading
  /\ inputMethod = "location"
  /\ HandleLocationSubmit

EnterKey ==
  /\ inputMethod = "location"
  /\ HandleLocationSubmit

---------------------------------------------------------------------------
(* handleLocationSubmit, resumed when the fetch or the json promise settles *)

FetchResolved(k, status) ==
  /\ requests[k].pc = "fetch"
  /\ IF ~ResponseOk(status)
     THEN /\ requests' = [requests EXCEPT ![k].pc = "failed",
                                          ![k].status = status]
          /\ error' = FailureMessage(HttpErrorMessage(status))
          /\ loading' = FALSE
     ELSE /\ requests' = [requests EXCEPT ![k].pc = "json",
                                          ![k].status = status]
          /\ UNCHANGED <<error, loading>>
  /\ UNCHANGED <<location, coordinates, selectedCoords, recommendations,
                 weatherData, inputMethod>>

FetchRejected_Retry(k) ==
  /\ requests[k].pc = "fetch"
  /\ requests' = Append([requests EXCEPT ![k].pc = "failed"],
                        [body |-> requests[k].body, pc |-> "fetch",
                         status |-> 0, data |-> NoData])
  /\ error' = FailureMessage(<<"Failed to fetch">>)
  /\ loading' = FALSE
  /\ UNCHANGED <<location, coordinates, selectedCoords, recommendations,
                 weatherData, inputMethod>>

FetchRejected(k) ==
  /\ requests[k].pc = "fetch"
  /\ requests' = [requests EXCEPT ![k].pc = "failed"]
  /\ error' = FailureMessage(<<"Failed to fetch">>)
  /\ loading' = FALSE
  /\ UNCHANGED <<location, coordinates, selectedCoords, recommendations,
                 weatherData, inputMethod>>

JsonResolved(k, data) ==
  /\ requests[k].pc = "json"
  /\ IF data = JsonNull
     THEN /\ requests' = [requests EXCEPT ![k].pc = "failed"]
          /\ error' = FailureMessage(<<"Cannot read properties of null">>)
          /\ UNCHANGED <<recommendations, weatherData>>
     ELSE /\ requests' = [requests EXCEPT ![k].pc = "ok", ![k].data = data]
          /\ recommendations' = data.recommendations
          /\ weatherData' = data.weather_data
          /\ UNCHANGED error
  /\ loading' = FALSE
  /\ UNCHANGED <<location, coordinates, selectedCoords, inputMethod>>

JsonRejected_NoFinally(k) ==
  /\ requests[k].pc = "json"
  /\ requests' = [requests EXCEPT ![k].pc = "failed"]
  /\ error' = FailureMessage(<<"Unexpected token in JSON">>)
  /\ UNCHANGED <<location, coordinates, selectedCoords, recommendations,
                 weatherData, inputMethod, loading>>

JsonRejected(k) ==
  /\ requests[k].pc = "json"
  /\ requests' = [requests EXCEPT ![k].pc = "failed"]
  /\ error' = FailureMessage(<<"Unexpected token in JSON">>)
  /\ loading' = FALSE
  /\ UNCHANGED <<location, coordinates, selectedCoords, recommendations,
                 weatherData, inputMethod>>

---------------------------------------------------------------------------

Next ==
  \/ \E text \in Texts : LocationChange(text)
  \/ \E method \in InputMethods : SetInputMethod(method)
  \/ \E latlng \in MapPoints : MapClick(latlng)
  \/ ButtonClick
  \/ EnterKey
  \/ \E k \in 1..Len(requests) : \E status \in Statuses : FetchResolved(k, status)
  \/ \E k \in 1..Len(requests) : FetchRejected(k)
  \/ \E k \in 1..Len(requests) : \E data \in Payloads : JsonResolved(k, data)
  \/ \E k \in 1..Len(requests) : JsonRejected(k)

Spec == Init /\ [][Next]_vars

TypeOK ==
  /\ location \in Texts
  /\ \A i \in 1..Len(location) : location[i] \in Chars
  /\ coordinates \in MapPoints \cup {DefaultCenter}
  /\ selectedCoords \in MapPoints \cup {Null}
  /\ loading \in BOOLEAN
  /\ inputMethod \in InputMethods
  /\ Len(requests) <= MaxRequests

---------------------------------------------------------------------------
(* Vocabulary of the properties *)

Blank(s) == \A i \in 1..Len(s) : s[i] \in Whitespace

NoLocationSource == Blank(location) /\ selectedCoords = Null

IsTrimOf(t, s) ==
  \E i \in 1..(Len(s) + 1), j \in 0..Len(s) :
    /\ t = SubSeq(s, i, j)
    /\ \A n \in 1..(i - 1) : s[n] \in Whitespace
    /\ \A n \in (j + 1)..Len(s) : s[n] \in Whitespace
    /\ t # <<>> => (t[1] \notin Whitespace /\ t[Len(t)] \notin Whitespace)

Contains(message, part) == \E i \in 1..Len(message) : message[i] = part

InFlight == {k \in 1..Len(requests) : requests[k].pc \in {"fetch", "json"}}

Succeeded == {k \in 1..Len(requests) : requests[k].pc = "ok"}

Failed == {k \in 1..Len(requests) : requests[k].pc = "failed"}

SubmitStep == ButtonClick \/ EnterKey

RequestSent == Len(requests') = Len(requests) + 1

Completes(k) ==
  /\ Len(requests') = Len(requests)
  /\ requests[k].pc \in {"fetch", "json"}
  /\ requests'[k].pc \in {"ok", "failed"}

---------------------------------------------------------------------------
(* C1: a submit with blank (empty after trimming) text and no selected     *)
(* coordinates sends no request, sets the error to the validation message  *)
(* and leaves loading, weatherData and recommendations unchanged.          *)
C1_ValidationNoRequest ==
  [][(SubmitStep /\ NoLocationSource) =>
       /\ requests' = requests
       /\ error' = <<"Please enter a location or select a point on the map">>
       /\ UNCHANGED <<loading, weatherData, recommendations>>]_vars

C1_Witness ==
  /\ location = <<" ">>
  /\ selectedCoords = Null
  /\ error = ValidationMessage
  /\ requests = <<>>

(* C2: the body of a request is fixed by the state at the submit: in map   *)
(* mode with coordinates selected it is {lat, lon, threshold: 0.5} of the  *)
(* selected point, otherwise {location: trimmed text, threshold: 0.5}.     *)
C2_RequestBody ==
  [][RequestSent =>
       LET b == requests'[Len(requests')].body IN
         /\ SubSeq(requests', 1, Len(requests)) = requests
         /\ b.threshold = "0.5"
         /\ IF inputMethod = "map" /\ selectedCoords # Null
            THEN /\ DOMAIN b = {"lat", "lon", "threshold"}
                 /\ b.lat = selectedCoords.lat
                 /\ b.lon = selectedCoords.lng
            ELSE /\ DOMAIN b = {"location", "threshold"}
                 /\ IsTrimOf(b.location, location)]_vars

C2_Witness ==
  /\ Len(requests) = 2
  /\ requests[1].body = [lat |-> "6.9", lon |-> "80.0", threshold |-> "0.5"]
  /\ requests[2].body = [location |-> <<"c">>, threshold |-> "0.5"]
  /\ location = <<" ", "c", " ">>
  /\ selectedCoords # Null

(* C3: loading is true exactly when some sent request has not had its      *)
(* outcome handled.                                                        *)
C3_LoadingIffOutstanding == loading <=> (InFlight # {})

(* C4: a response with a non-success status is not parsed, puts the status *)
(* code into the error message and leaves weatherData and recommendations  *)
(* as they were.                                                           *)
C4_HttpFailure ==
  [][\A k \in 1..Len(requests) :
       (/\ Len(requests') = Len(requests)
        /\ requests[k].status = 0
        /\ requests'[k].status \notin 200..299
        /\ requests'[k].status # 0) =>
         /\ requests'[k].pc = "failed"
         /\ requests'[k].data = NoData
         /\ Contains(error', ToString(requests'[k].status))
         /\ requests'[k].status = 500 => Contains(error', "500")
         /\ UNCHANGED <<weatherData, recommendations>>]_vars

C4_Witness ==
  /\ Len(requests) = 2
  /\ requests[1].pc = "ok"
  /\ requests[2].pc = "failed" /\ requests[2].status = 500
  /\ weatherData = requests[1].data.weather_data
  /\ recommendations = requests[1].data.recommendations
  /\ Contains(error, "500")

(* C5: every submit that passes validation sends exactly one request, and  *)
(* nothing else sends one: no completion, failed or not, adds a request.   *)
C5_OneRequestPerSubmission ==
  [][/\ (SubmitStep /\ ~NoLocationSource) =>
          /\ RequestSent
          /\ SubSeq(requests', 1, Len(requests)) = requests
          /\ requests'[Len(requests')].pc = "fetch"
     /\ ~SubmitStep => Len(requests') = Len(requests)]_vars

C5_Witness ==
  /\ Len(requests) = 2
  /\ Failed = {1, 2}
  /\ requests[1].status = 0
  /\ requests[2].status = 500

(* C6: the step that handles the completion of a request, on any exit      *)
(* path, ends with loading false, and the submit button is then enabled    *)
(* whenever a location source is present.                                  *)
C6_LoadingCleared ==
  [][(\E k \in 1..Len(requests) : Completes(k)) =>
       /\ ~loading'
       /\ ~(NoLocationSource') => ~(ButtonDisabled')]_vars

C6_Witness ==
  /\ ~loading
  /\ Len(requests) = 2
  /\ requests[1].pc = "failed" /\ requests[1].status = 200
  /\ requests[2].pc = "ok"

(* C7 (as amended): while loading the submit button is disabled, but the   *)
(* Enter key of the location input still submits: with a location source   *)
(* present it sends a further request.                                     *)
C7_EnterKeySubmitsWhileLoading ==
  loading =>
    /\ ~ENABLED ButtonClick
    /\ (inputMethod = "location" /\ ~NoLocationSource
          /\ Len(requests) < MaxRequests) =>
         ENABLED (EnterKey /\ RequestSent)

C7_Witness == loading /\ Cardinality(InFlight) >= 2

(* C7 (as claimed): while a request is outstanding and loading is shown,   *)
(* the submit action is enabled.                                           *)
C7_SubmitEnabledWhileLoading ==
  (loading /\ InFlight # {} /\ ~NoLocationSource) => ~ButtonDisabled

(* C8: once a submit has passed validation, no error of an earlier attempt *)
(* is shown: while the latest request is in flight or has succeeded, the   *)
(* error is empty or the validation message of a later submit.             *)
C8_NoEarlierError ==
  (requests # <<>> /\ requests[Len(requests)].pc # "failed") =>
    error \in {<<>>, ValidationMessage}

(* C9: every body of the form {location, threshold} that is sent has a     *)
(* non-empty location.                                                     *)
C9_LocationNonEmpty ==
  \A k \in 1..Len(requests) :
    "location" \in DOMAIN requests[k].body => requests[k].body.location # <<>>

(* C10: with no request in flight, the results shown are those of the      *)
(* most recently submitted request among the ones that succeeded.          *)
C10_LatestResultsShown ==
  (InFlight = {} /\ Succeeded # {}) =>
    LET latest == CHOOSE k \in Succeeded : \A j \in Succeeded : j <= k IN
      /\ weatherData = requests[latest].data.weather_data
      /\ recommendations = requests[latest].data.recommendations

=============================================================================
